---- MODULE Spec2Model ----
(***************************************************************************)
(* Model of arcade/camera/static.py: the _StaticCamera class (use,         *)
(* activate, project, unproject) and the five static_from_* helpers, run   *)
(* against one window and its context.                                     *)
(*                                                                         *)
(* Encoding.  Every value that reaches the context or a camera is a tuple  *)
(* of integers, so that any two of them can be compared:                   *)
(*   - None (an absent viewport, an absent depth) is the empty tuple; the  *)
(*     only use the code makes of it is `x or y`, and () is falsy too;     *)
(*   - an absent project/unproject method is NoMethod (0);                 *)
(*   - a Mat4 produced by a generator of arcade.camera.projection_functions*)
(*     is the term <<generator tag>> \o <<its arguments>>: the generators  *)
(*     are not part of static.py and are kept uninterpreted.  The same     *)
(*     holds for the value returned by a project/unproject method.         *)
(***************************************************************************)
EXTENDS Integers, Sequences, FiniteSets, TLC

VARIABLES cams, ctx, stack, exc, base, last

vars == <<cams, ctx, stack, exc, base, last>>

----------------------------------------------------------------------------
(* Bounds *)

NumCameras == 2     \* cameras the window owns in Spec
MaxDepth == 2       \* nesting depth of activate() scopes
MaxBuilt == 3       \* cameras built in SpecBuild (the first one included)

----------------------------------------------------------------------------
(* Values *)

None == <<>>
NoMethod == 0
project_orthographic == 1
project_perspective == 2
unproject_orthographic == 3
unproject_perspective == 4

GenView == 1
GenOrthographic == 2
GenPerspective == 3
GivenMatrix == 4

ZeroRect == <<0, 0, 0, 0>>
WindowViewport == <<0, 0, 4, 3>>
Viewport1 == <<0, 0, 8, 6>>
Viewport2 == <<2, 2, 4, 4>>

\* Python truthiness of an Optional[tuple], and `a or b`
Truthy(v) == Len(v) > 0
PyOr(a, b) == IF Truthy(a) THEN a ELSE b

\* CameraData(position, up, forward, zoom)
CameraData(position, up, forward, zoom) ==
    [position |-> position, up |-> up, forward |-> forward, zoom |-> zoom]

\* OrthographicProjectionData(left, right, bottom, top, near, far, viewport)
OrthographicProjectionData(left, right, bottom, top, near, far, viewport) ==
    [params |-> <<left, right, bottom, top, near, far>>, viewport |-> viewport]

\* PerspectiveProjectionData(aspect, fov, near, far, viewport)
PerspectiveProjectionData(aspect, fov, near, far, viewport) ==
    [params |-> <<aspect, fov, near, far>>, viewport |-> viewport]

\* the generators of arcade.camera.projection_functions, uninterpreted
generate_view_matrix(data) ==
    <<GenView>> \o data.position \o data.up \o data.forward \o <<data.zoom>>

generate_orthographic_matrix(data, zoom) ==
    <<GenOrthographic>> \o data.params \o data.viewport \o <<zoom>>

generate_perspective_matrix(data, zoom) ==
    <<GenPerspective>> \o data.params \o data.viewport \o <<zoom>>

\* a Mat4 the caller built
Mat4(n) == <<GivenMatrix, n>>

----------------------------------------------------------------------------
(* The window and its context *)

\* Window.current_camera = cam.  use() writes the window's attribute and
\* activate() reads the context's: one slot, reached by both paths.
WinSetCurrentCamera(c, cam) == [c EXCEPT !.current_camera = cam]

\* the context before any camera of the model is installed
WindowCtx ==
    [current_camera |-> 0, viewport |-> WindowViewport,
     projection_matrix |-> Mat4(0), view_matrix |-> Mat4(0), other |-> 0]

----------------------------------------------------------------------------
(* _StaticCamera *)

\* __init__(view_matrix, projection_matrix, viewport, project_method,
\*          unproject_method, window): c is window.ctx
StaticCamera(c, view_matrix, projection_matrix, viewport, project_method, unproject_method) ==
    [viewport |-> PyOr(viewport, c.viewport),
     view |-> view_matrix,
     projection |-> projection_matrix,
     project_method |-> project_method,
     unproject_method |-> unproject_method]

\* use() that multiplies the view matrix onto the context's instead of
\* overwriting it
use_accumulates(st, self) ==
    [st EXCEPT !.ctx =
        [WinSetCurrentCamera(st.ctx, self) EXCEPT
            !.viewport = st.cams[self].viewport,
            !.projection_matrix = st.cams[self].projection,
            !.view_matrix = @ \o st.cams[self].view]]

\* use() that also resets the rest of the context
use_resets_context(st, self) ==
    [st EXCEPT !.ctx =
        [WinSetCurrentCamera(st.ctx, self) EXCEPT
            !.viewport = st.cams[self].viewport,
            !.projection_matrix = st.cams[self].projection,
            !.view_matrix = st.cams[self].view,
            !.other = 0]]

\* use() with the viewport assignment turned round
use_stores_viewport(st, self) ==
    [st EXCEPT !.ctx =
        [WinSetCurrentCamera(st.ctx, self) EXCEPT
            !.projection_matrix = st.cams[self].projection,
            !.view_matrix = st.cams[self].view],
              !.cams[self].viewport = st.ctx.viewport]

\* use() that installs the camera's values but not the camera
use_keeps_current(st, self) ==
    [st EXCEPT !.ctx =
        [st.ctx EXCEPT
            !.viewport = st.cams[self].viewport,
            !.projection_matrix = st.cams[self].projection,
            !.view_matrix = st.cams[self].view]]

\* use(): st is the pair (context, cameras), self a camera's index
use(st, self) ==
    [st EXCEPT !.ctx =
        [WinSetCurrentCamera(st.ctx, self) EXCEPT
            !.viewport = st.cams[self].viewport,
            !.projection_matrix = st.cams[self].projection,
            !.view_matrix = st.cams[self].view]]

\* the use() calls of a list of cameras, in order
RECURSIVE RunCalls(_, _)
RunCalls(st, calls) ==
    IF calls = <<>> THEN st
    ELSE RunCalls(use(st, Head(calls)), Tail(calls))

\* activate() that reads the current camera after its own use()
activate_enter_prev_self(st, self) ==
    [prev |-> use(st, self).ctx.current_camera, calls |-> <<self>>]

\* activate(), up to the yield: the camera remembered and the use() calls made
activate_enter(st, self) ==
    [prev |-> st.ctx.current_camera, calls |-> <<self>>]

\* activate() without try/finally: nothing is restored when the body raises
activate_exit_no_finally(prev, aborted) == IF aborted THEN <<>> ELSE <<prev>>

\* activate() whose finally block restores nothing
activate_exit_none(prev, aborted) == <<>>

\* activate() that restores twice
activate_exit_twice(prev, aborted) == <<prev, prev>>

\* activate(), the finally block: the use() calls made when the body has
\* completed (aborted = FALSE) or raised (aborted = TRUE)
activate_exit(prev, aborted) == <<prev>>

\* project() that returns nothing when the camera has no project method
project_silent(cam, world_coordinate) ==
    IF cam.project_method = NoMethod
    THEN [status |-> "ok", value |-> <<>>]
    ELSE IF Len(world_coordinate) < 3
    THEN [status |-> "IndexError", value |-> <<>>]
    ELSE [status |-> "ok",
          value |-> <<cam.project_method, world_coordinate[1], world_coordinate[2],
                      world_coordinate[3]>>
                    \o cam.viewport \o cam.view \o cam.projection]

\* project(world_coordinate)
project(cam, world_coordinate) ==
    IF cam.project_method = NoMethod
    THEN [status |-> "ValueError", value |-> <<>>]
    ELSE IF Len(world_coordinate) < 3
    THEN [status |-> "IndexError", value |-> <<>>]
    ELSE [status |-> "ok",
          value |-> <<cam.project_method, world_coordinate[1], world_coordinate[2],
                      world_coordinate[3]>>
                    \o cam.viewport \o cam.view \o cam.projection]

\* unproject(screen_coordinate, depth)
unproject(cam, screen_coordinate, depth) ==
    IF cam.unproject_method = NoMethod
    THEN [status |-> "ValueError", value |-> <<>>]
    ELSE IF Len(screen_coordinate) < 2
    THEN [status |-> "IndexError", value |-> <<>>]
    ELSE [status |-> "ok",
          value |-> <<cam.unproject_method, screen_coordinate[1], screen_coordinate[2]>>
                    \o cam.viewport \o cam.view \o cam.projection \o depth]

----------------------------------------------------------------------------
(* Construction helpers; c is the context of the target window *)

static_from_orthographic(c, view, orthographic) ==
    StaticCamera(c, generate_view_matrix(view),
                 generate_orthographic_matrix(orthographic, view.zoom),
                 orthographic.viewport,
                 project_orthographic, unproject_orthographic)

static_from_perspective(c, view, perspective) ==
    StaticCamera(c, generate_view_matrix(view),
                 generate_orthographic_matrix(perspective, view.zoom),
                 perspective.viewport,
                 project_perspective, unproject_perspective)

\* static_from_raw_orthographic that hands the zero rectangle on to the camera
static_from_raw_orthographic_zero(c, projection, near, far, zoom, position, up, forward, viewport) ==
    LET view == generate_view_matrix(CameraData(position, up, forward, zoom))
        proj == generate_orthographic_matrix(
                    OrthographicProjectionData(projection[1], projection[2],
                        projection[3], projection[4], near, far,
                        PyOr(viewport, ZeroRect)), zoom)
    IN StaticCamera(c, view, proj, PyOr(viewport, ZeroRect),
                    project_orthographic, unproject_orthographic)

static_from_raw_orthographic(c, projection, near, far, zoom, position, up, forward, viewport) ==
    LET view == generate_view_matrix(CameraData(position, up, forward, zoom))
        proj == generate_orthographic_matrix(
                    OrthographicProjectionData(projection[1], projection[2],
                        projection[3], projection[4], near, far,
                        PyOr(viewport, ZeroRect)), zoom)
    IN StaticCamera(c, view, proj, viewport,
                    project_orthographic, unproject_orthographic)

static_from_raw_perspective(c, aspect, fov, near, far, zoom, position, up, forward, viewport) ==
    LET view == generate_view_matrix(CameraData(position, up, forward, zoom))
        proj == generate_perspective_matrix(
                    PerspectiveProjectionData(aspect, fov, near, far,
                        PyOr(viewport, ZeroRect)), zoom)
    IN StaticCamera(c, view, proj, viewport,
                    project_perspective, unproject_perspective)

static_from_matrices(c, view, projection, viewport, project_method, unproject_method) ==
    StaticCamera(c, view, projection, viewport, project_method, unproject_method)

----------------------------------------------------------------------------
(* Inputs *)

DefaultPosition == <<0, 0, 0>>
DefaultUp == <<0, 1, 0>>
DefaultForward == <<0, 0, -1>>
DefaultNear == -100
DefaultFar == 100
DefaultZoom == 1

OptViewports == {None, Viewport1, ZeroRect}
MethodPairs == {<<NoMethod, NoMethod>>, <<project_orthographic, NoMethod>>,
                <<NoMethod, unproject_orthographic>>,
                <<project_orthographic, unproject_orthographic>>}
WorldCoordinates == {<<1, 2>>, <<1, 2, 0>>, <<3, 4, 5>>}
ScreenCoordinates == {<<7>>, <<1, 2>>}
Depths == {None, <<1>>}

\* the i-th camera the program builds before Spec starts; c is the context
Roster(c, i) ==
    CASE i % 4 = 1 ->
            static_from_matrices(c, Mat4(1), Mat4(2), None, NoMethod, NoMethod)
      [] i % 4 = 2 ->
            static_from_raw_orthographic(c, <<0, 8, 0, 6>>, DefaultNear, DefaultFar,
                DefaultZoom, DefaultPosition, DefaultUp, DefaultForward, Viewport1)
      [] i % 4 = 3 ->
            static_from_matrices(c, Mat4(3), Mat4(4), Viewport2,
                project_orthographic, NoMethod)
      [] OTHER ->
            static_from_perspective(c,
                CameraData(DefaultPosition, DefaultUp, DefaultForward, DefaultZoom),
                PerspectiveProjectionData(1, 90, 1, 100, Viewport1))

----------------------------------------------------------------------------
(* State *)

\* the pair the operators work on
St == [ctx |-> ctx, cams |-> cams]

\* a scope of activate() whose body is running.  prev and entry_calls are what
\* activate() computed; before and body are history: the camera that was
\* current when the scope was entered, and what the body has called directly
\* (<<>> nothing yet, <<b>> exactly one b.use(), <<0>> anything else).
Frame(cam, prev, before, entry_calls) ==
    [cam |-> cam, prev |-> prev, before |-> before,
     entry_calls |-> entry_calls, body |-> <<>>]

NoFrame == [cam |-> 0, prev |-> 0, before |-> 0, entry_calls |-> <<>>, body |-> <<>>]
NoResult == [status |-> "none", value |-> <<>>]

\* the last operation: its name, camera, argument and result, the state it
\* started from, the scope it entered or left and the use() calls it made
Event(op, cam, arg, result, frame, calls, rep) ==
    [op |-> op, cam |-> cam, arg |-> arg, result |-> result, pre |-> St,
     depth |-> Len(stack), frame |-> frame, calls |-> calls, rep |-> rep]

Top == stack[Len(stack)]

\* the body of the innermost running scope has called something
BodyCalls(b) ==
    IF stack = <<>> THEN stack
    ELSE [stack EXCEPT ![Len(stack)].body = IF @ = <<>> THEN b ELSE <<0>>]

BuiltCameras(n) == [i \in 1..n |-> Roster(WindowCtx, i)]

Init ==
    /\ cams = BuiltCameras(NumCameras)
    /\ \E k \in 1..NumCameras, o \in {0, 1} :
          /\ ctx = [use([ctx |-> WindowCtx, cams |-> BuiltCameras(NumCameras)], k).ctx
                        EXCEPT !.other = o]
          /\ base = k
    /\ stack = <<>>
    /\ exc = FALSE
    /\ last = [op |-> "init", cam |-> 0, arg |-> <<>>, result |-> NoResult,
               pre |-> [ctx |-> ctx, cams |-> cams], depth |-> 0,
               frame |-> NoFrame, calls |-> <<>>, rep |-> FALSE]

----------------------------------------------------------------------------
(* Operations *)

\* cam.use(), at top level or in the body of a scope
UseCall ==
    /\ ~exc
    /\ \E i \in 1..Len(cams) :
        LET st2 == use(St, i) IN
          /\ ctx' = st2.ctx
          /\ cams' = st2.cams
          /\ stack' = BodyCalls(<<i>>)
          /\ base' = IF stack = <<>> THEN i ELSE 0
          /\ last' = Event("use", i, <<>>, NoResult, NoFrame, <<i>>,
                           last.op = "use" /\ last.cam = i)
    /\ UNCHANGED exc

\* with cam.activate(): entry, up to the yield
ActivateEnter ==
    /\ ~exc
    /\ Len(stack) < MaxDepth
    /\ \E i \in 1..Len(cams) :
        LET e == activate_enter(St, i)
            st2 == RunCalls(St, e.calls)
            f == Frame(i, e.prev, ctx.current_camera, e.calls)
        IN
          /\ ctx' = st2.ctx
          /\ cams' = st2.cams
          /\ stack' = Append(BodyCalls(<<0>>), f)
          /\ last' = Event("enter", i, <<>>, NoResult, f, e.calls, FALSE)
    /\ UNCHANGED <<exc, base>>

\* the body of the innermost scope completes: the finally block runs and
\* control returns to the caller of the scope
ActivateExit ==
    /\ ~exc
    /\ stack # <<>>
    /\ LET calls == activate_exit(Top.prev, FALSE)
           st2 == RunCalls(St, calls)
       IN
          /\ ctx' = st2.ctx
          /\ cams' = st2.cams
          /\ last' = Event("exit", Top.cam, <<>>, NoResult, Top, calls, FALSE)
    /\ stack' = SubSeq(stack, 1, Len(stack) - 1)
    /\ UNCHANGED <<exc, base>>

\* an exception unwinds the innermost scope: the finally block runs and the
\* exception goes on to the caller of the scope
ActivateAbort ==
    /\ exc
    /\ stack # <<>>
    /\ LET calls == activate_exit(Top.prev, TRUE)
           st2 == RunCalls(St, calls)
       IN
          /\ ctx' = st2.ctx
          /\ cams' = st2.cams
          /\ last' = Event("abort", Top.cam, <<>>, NoResult, Top, calls, FALSE)
    /\ stack' = SubSeq(stack, 1, Len(stack) - 1)
    /\ base' = 0
    /\ UNCHANGED exc

\* the body of a scope raises
Raise ==
    /\ ~exc
    /\ stack # <<>>
    /\ exc' = TRUE
    /\ stack' = BodyCalls(<<0>>)
    /\ base' = 0
    /\ last' = Event("raise", 0, <<>>, NoResult, NoFrame, <<>>, FALSE)
    /\ UNCHANGED <<ctx, cams>>

\* the caller that the exception has reached handles it
Catch ==
    /\ exc
    /\ exc' = FALSE
    /\ stack' = BodyCalls(<<0>>)
    /\ base' = 0
    /\ last' = Event("catch", 0, <<>>, NoResult, NoFrame, <<>>, FALSE)
    /\ UNCHANGED <<ctx, cams>>

\* cam.project(world_coordinate)
ProjectCall ==
    /\ ~exc
    /\ \E i \in 1..Len(cams), wc \in WorldCoordinates :
        LET r == project(cams[i], wc) IN
          /\ exc' = (r.status # "ok")
          /\ last' = Event("project", i, wc, r, NoFrame, <<>>, FALSE)
    /\ stack' = BodyCalls(<<0>>)
    /\ base' = 0
    /\ UNCHANGED <<ctx, cams>>

\* cam.unproject(screen_coordinate, depth)
UnprojectCall ==
    /\ ~exc
    /\ \E i \in 1..Len(cams), sc \in ScreenCoordinates, d \in Depths :
        LET r == unproject(cams[i], sc, d) IN
          /\ exc' = (r.status # "ok")
          /\ last' = Event("unproject", i, sc \o d, r, NoFrame, <<>>, FALSE)
    /\ stack' = BodyCalls(<<0>>)
    /\ base' = 0
    /\ UNCHANGED <<ctx, cams>>

\* other code changes context state that no camera owns
CtxOther ==
    /\ ~exc
    /\ ctx' = [ctx EXCEPT !.other = 1 - @]
    /\ last' = Event("other", 0, <<>>, NoResult, NoFrame, <<>>, FALSE)
    /\ UNCHANGED <<cams, stack, exc, base>>

Next ==
    \/ UseCall
    \/ ActivateEnter
    \/ ActivateExit
    \/ ActivateAbort
    \/ Raise
    \/ Catch
    \/ ProjectCall
    \/ UnprojectCall
    \/ CtxOther

Spec == Init /\ [][Next]_vars

----------------------------------------------------------------------------
(* Construction: a window whose program goes on building cameras *)

\* the new camera joins the cameras of the window
Built(op, viewport, cam) ==
    /\ ~exc
    /\ Len(cams) < MaxBuilt
    /\ cams' = Append(cams, cam)
    /\ last' = Event(op, Len(cams) + 1, viewport, NoResult, NoFrame, <<>>, FALSE)
    /\ base' = 0
    /\ UNCHANGED <<ctx, stack, exc>>

BuildOrthographic ==
    \E vp \in OptViewports :
        Built("static_from_orthographic", vp,
              static_from_orthographic(ctx,
                  CameraData(DefaultPosition, DefaultUp, DefaultForward, DefaultZoom),
                  OrthographicProjectionData(0, 8, 0, 6, DefaultNear, DefaultFar, vp)))

BuildPerspective ==
    \E vp \in OptViewports :
        Built("static_from_perspective", vp,
              static_from_perspective(ctx,
                  CameraData(DefaultPosition, DefaultUp, DefaultForward, DefaultZoom),
                  PerspectiveProjectionData(1, 90, 1, 100, vp)))

BuildRawOrthographic ==
    \E vp \in OptViewports :
        Built("static_from_raw_orthographic", vp,
              static_from_raw_orthographic(ctx, <<0, 8, 0, 6>>, DefaultNear, DefaultFar,
                  DefaultZoom, DefaultPosition, DefaultUp, DefaultForward, vp))

BuildRawPerspective ==
    \E vp \in OptViewports :
        Built("static_from_raw_perspective", vp,
              static_from_raw_perspective(ctx, 1, 90, DefaultNear, DefaultFar,
                  DefaultZoom, DefaultPosition, DefaultUp, DefaultForward, vp))

BuildMatrices ==
    \E vp \in OptViewports, m \in MethodPairs :
        Built("static_from_matrices", vp,
              static_from_matrices(ctx, Mat4(1), Mat4(2), vp, m[1], m[2]))

InitBuild ==
    /\ cams = BuiltCameras(1)
    /\ ctx = use([ctx |-> WindowCtx, cams |-> BuiltCameras(1)], 1).ctx
    /\ base = 1
    /\ stack = <<>>
    /\ exc = FALSE
    /\ last = [op |-> "init", cam |-> 0, arg |-> <<>>, result |-> NoResult,
               pre |-> [ctx |-> ctx, cams |-> cams], depth |-> 0,
               frame |-> NoFrame, calls |-> <<>>, rep |-> FALSE]

NextBuild ==
    \/ BuildOrthographic
    \/ BuildPerspective
    \/ BuildRawOrthographic
    \/ BuildRawPerspective
    \/ BuildMatrices
    \/ UseCall

SpecBuild == InitBuild /\ [][NextBuild]_vars

----------------------------------------------------------------------------
(* Properties *)

Exits == {"exit", "abort"}
RawHelpers == {"static_from_raw_orthographic", "static_from_raw_perspective"}
Helpers == RawHelpers \cup {"static_from_orthographic", "static_from_perspective",
                            "static_from_matrices"}

\* the context after cam.use(), as the specification words it
Installed(c, cs, cam) ==
    [c EXCEPT !.current_camera = cam,
              !.viewport = cs[cam].viewport,
              !.projection_matrix = cs[cam].projection,
              !.view_matrix = cs[cam].view]

\* C1: when a scope of activate() has ended, by completion or by an exception,
\* the current camera is the one that was current just before the scope was
\* entered, and the context is the one that camera's use() installs.
C1_ActivateRestoresPrior ==
    last.op \in Exits =>
        /\ ctx.current_camera = last.frame.before
        /\ ctx = Installed(last.pre.ctx, last.pre.cams, last.frame.before)

\* a scope whose body switched to another camera and then raised has ended
C1_Witness ==
    /\ last.op = "abort"
    /\ last.frame.before # last.frame.cam
    /\ last.pre.ctx.current_camera # last.frame.before

\* C2: use() sets the current camera, the viewport, the projection matrix and
\* the view matrix of the context from the camera and changes nothing else of
\* the context and no camera.
C2_UseFrame ==
    last.op = "use" =>
        /\ ctx = Installed(last.pre.ctx, last.pre.cams, last.cam)
        /\ cams = last.pre.cams

\* use() of a camera that was not current, all four fields differing
C2_Witness ==
    /\ last.op = "use"
    /\ last.pre.ctx.current_camera # last.cam
    /\ last.pre.ctx.other = 1
    /\ ctx.viewport # last.pre.ctx.viewport
    /\ ctx.projection_matrix # last.pre.ctx.projection_matrix
    /\ ctx.view_matrix # last.pre.ctx.view_matrix

\* C3: a scope of activate() calls use() of its camera once on entry and
\* nothing more until its body has completed or raised; it then calls use()
\* of the previous camera once, and with that the scope is left.
C3_ExactlyOnce ==
    /\ \A k \in 1..Len(stack) : stack[k].entry_calls = <<stack[k].cam>>
    /\ last.op = "enter" =>
          /\ last.calls = <<last.cam>>
          /\ Len(stack) = last.depth + 1
          /\ ctx = Installed(last.pre.ctx, last.pre.cams, last.cam)
    /\ last.op \in Exits =>
          /\ last.frame.entry_calls = <<last.frame.cam>>
          /\ last.calls = <<last.frame.before>>
          /\ Len(stack) = last.depth - 1
    /\ last.op \notin {"enter", "use"} \cup Exits => last.calls = <<>>

\* a scope whose body switched to a camera other than the previous one has
\* completed
C3_Witness ==
    /\ last.op = "exit"
    /\ Len(last.frame.body) = 1
    /\ last.frame.body[1] # 0
    /\ last.frame.body[1] # last.frame.before

\* C4: project() of a camera without project method, and unproject() of a
\* camera without unproject method, fail with the ValueError and leave the
\* cameras and the context as they were.
C4_UnconfiguredFails ==
    (\/ last.op = "project" /\ last.pre.cams[last.cam].project_method = NoMethod
     \/ last.op = "unproject" /\ last.pre.cams[last.cam].unproject_method = NoMethod)
    => /\ last.result.status = "ValueError"
       /\ cams = last.pre.cams
       /\ ctx = last.pre.ctx

\* project() was called on a camera without project method in a scope
C4_Witness ==
    /\ last.op = "project"
    /\ cams[last.cam].project_method = NoMethod
    /\ stack # <<>>

\* C5: the cameras keep the viewport, view and projection they were built
\* with, whatever is called on them.
C5_CamerasImmutable ==
    \A i \in 1..Len(cams) :
        /\ cams[i].viewport = BuiltCameras(NumCameras)[i].viewport
        /\ cams[i].view = BuiltCameras(NumCameras)[i].view
        /\ cams[i].projection = BuiltCameras(NumCameras)[i].projection

\* unproject() has succeeded in a scope, on a camera that is not current,
\* after a use() in the body
C5_Witness ==
    /\ last.op = "unproject"
    /\ last.result.status = "ok"
    /\ stack # <<>>
    /\ ctx.current_camera # last.cam
    /\ ctx.current_camera # Top.cam

\* C6: a use() that directly follows a use() of the same camera leaves the
\* context as the first one left it.
C6_UseIdempotent ==
    (last.op = "use" /\ last.rep) => ctx = last.pre.ctx

\* the same camera was used twice in a row
C6_Witness ==
    /\ last.op = "use"
    /\ last.rep
    /\ base = last.cam

\* the body of the scope that has just completed was exactly one b.use()
BodyWasOneUse ==
    /\ last.op = "exit"
    /\ Len(last.frame.body) = 1
    /\ last.frame.body[1] # 0

\* C7, as stated: after a scope of A.activate() whose body is B.use(), the
\* current camera is A.
C7_CurrentIsA ==
    BodyWasOneUse => ctx.current_camera = last.frame.cam

\* C7, amended: after a scope of A.activate() whose body is B.use(), the
\* current camera is the one that was current before the scope was entered.
C7_CurrentIsPrior ==
    BodyWasOneUse => ctx.current_camera = last.frame.before

\* such a scope has completed, A not being the camera current before it
C7_Witness ==
    /\ BodyWasOneUse
    /\ last.frame.before # last.frame.cam
    /\ last.pre.ctx.current_camera = last.frame.body[1]

\* C8, as stated: without a viewport the raw helpers store the zero rectangle
\* and the other helpers the viewport of the context; a given viewport is
\* stored as it is.
C8_ViewportDefaultAsStated ==
    last.op \in Helpers =>
        cams[last.cam].viewport =
            IF last.arg # None THEN last.arg
            ELSE IF last.op \in RawHelpers THEN ZeroRect
            ELSE last.pre.ctx.viewport

\* C8, amended: without a viewport every helper stores the viewport of the
\* context; a given viewport is stored as it is.
C8_ViewportDefault ==
    last.op \in Helpers =>
        cams[last.cam].viewport =
            IF last.arg # None THEN last.arg ELSE last.pre.ctx.viewport

\* a raw helper was called without viewport after another camera's viewport
\* had been installed
C8_Witness ==
    /\ last.op \in RawHelpers
    /\ last.arg = None
    /\ last.pre.ctx.viewport # WindowViewport

\* C9: project() of a 2-component coordinate, on a camera with a project
\* method, returns what project() returns with a third component 0.
C9_ProjectTwoComponents ==
    (/\ last.op = "project"
     /\ Len(last.arg) = 2
     /\ cams[last.cam].project_method # NoMethod)
    => /\ last.result.status = "ok"
       /\ last.result = project(cams[last.cam], last.arg \o <<0>>)

\* C10: after X.use() at top level and nothing but activate() scopes since,
\* every running scope has remembered the camera installed just before it (X
\* for the outermost, the enclosing scope's camera otherwise), the current
\* camera is that of the innermost running scope, and once all scopes are
\* left the current camera is X and the context has X's viewport, view and
\* projection.
C10_UseAndActivateAgree ==
    base # 0 =>
        /\ \A k \in 1..Len(stack) :
              stack[k].prev = IF k = 1 THEN base ELSE stack[k - 1].cam
        /\ ctx.current_camera = IF stack = <<>> THEN base ELSE Top.cam
        /\ stack = <<>> =>
              /\ ctx.viewport = cams[base].viewport
              /\ ctx.view_matrix = cams[base].view
              /\ ctx.projection_matrix = cams[base].projection

\* the inner of two nested scopes on cameras other than X has completed
C10_Witness ==
    /\ base # 0
    /\ last.op = "exit"
    /\ last.depth = 2
    /\ last.frame.cam # base
    /\ stack[1].cam # base

====
